---- MODULE Spec2Model ----
(***************************************************************************)
(* Model of the TrueAchievements coordinator                               *)
(* (custom_components/trueachievements/coordinator.py): the 24h cache      *)
(* policy, the download and its outcomes, the sticky auth_failed flag, the *)
(* notifications and the parse of the cached CSV export.                   *)
(*                                                                         *)
(* Time is counted in hours.  A refresh (_async_update_data) is cut at its *)
(* await points: Start (lines 103-129), Respond (131-160), WriteFile       *)
(* (135-142), TouchFile (163-166) and Parse (172-186).  Refreshes run one  *)
(* at a time: the DataUpdateCoordinator base class owns the scheduling.    *)
(***************************************************************************)
EXTENDS Integers, Sequences, FiniteSets, TLC

VARIABLES
    now,                \* wall clock, in hours (dt_util.now())
    games_file,         \* the cache file on disk: exists, content, mtime
    auth_failed,        \* self.auth_failed
    last_valid_update,  \* self.last_valid_update
    notified_games,     \* self._notified_games
    now_playing_eid,    \* configured now-playing entity ("" when none)
    excluded_apps,      \* self.excluded_apps, from the "excluded_apps" option
    playing,            \* state of the now-playing entity in hass.states
    server_ok,          \* the upstream service answers 200 with a valid export
    pc,                 \* position of the refresh in flight ("idle" when none)
    trigger,            \* what started the refresh in flight
    rnow,               \* local `now` of the refresh in flight
    should_download,    \* local `should_download` of the refresh in flight
    resp,               \* response received by the refresh in flight
    game_info,          \* local `game_info` of the refresh in flight
    reqs,               \* HTTP requests issued by the refresh in flight
    notifs,             \* notifications emitted so far, per notification id
    data,               \* coordinator.data: the snapshot last returned
    result,             \* how the last refresh ended
    pre                 \* state at the start of the refresh in flight

vars == <<now, games_file, auth_failed, last_valid_update, notified_games,
          now_playing_eid, excluded_apps, playing, server_ok, pc, trigger,
          rnow, should_download, resp, game_info, reqs, notifs, data, result,
          pre>>

----------------------------------------------------------------------------
(* Bounds of the model *)

MaxTime == 24          \* the clock stops here
MaxRows == 3           \* rows of a cache file, where files are enumerated

----------------------------------------------------------------------------
(* Program constants *)

FreshHours == 24       \* timedelta(hours=24)
MinValidSize == 1000   \* len(content) > 1000

GAME_NAME_MAPPING(n) ==
    IF n = "Minecraft for Android" THEN "Minecraft (Android)" ELSE n

----------------------------------------------------------------------------
(* Values *)

None == "None"

Row(n, p, gs, ta, won, max) ==
    [name |-> n, plat |-> p, gs_won |-> gs, ta_won |-> ta,
     ach_won |-> won, ach_max |-> max, extra |-> FALSE]

(* A line with more fields than the header: csv.DictReader files the rest *)
(* under the key None, and k.replace of line 257 raises AttributeError.   *)
Malformed(row) == [row EXCEPT !.extra = TRUE]

(* A response body or file content: its length in bytes, whether it holds  *)
(* the bytes b"Game name", and the rows a csv.DictReader yields from it.   *)
Body(l, m, rs) == [len |-> l, marker |-> m, rows |-> rs]

NoBody == Body(0, FALSE, <<>>)

ExportA == Body(1001, TRUE,
    << Row("Halo", "Xbox One", 500, 700, 50, 100) >>)

ExportB == Body(2400, TRUE,
    << Row("Halo", "Xbox One", 1000, 1500, 100, 100),
       Row("Forza", "Xbox One", 0, 0, 0, 60) >>)

LoginPage == Body(5000, FALSE, <<>>)

ShortExport == Body(1000, TRUE,
    << Row("Halo", "Xbox One", 10, 10, 1, 100) >>)

ValidBodies == {ExportA, ExportB}
InvalidBodies == {LoginPage, ShortExport}
Bodies == ValidBodies \cup InvalidBodies

(* What the HTTP call can produce: a status (with the body when it is 200) *)
(* or an exception (timeout, transport error).                             *)
Responses ==
    { [kind |-> "http", status |-> 200, body |-> b] : b \in Bodies } \cup
    { [kind |-> "http", status |-> s, body |-> NoBody] : s \in {401, 403, 500} } \cup
    { [kind |-> "exception", status |-> 0, body |-> NoBody] }

NoResp == [kind |-> "none", status |-> 0, body |-> NoBody]

Absent == [exists |-> FALSE, content |-> NoBody, mtime |-> 0]

NowPlayingStates == {"idle", "Halo", "Foo"}

(* hass.states.get(eid_sensor) returning None *)
NoState == "<no state>"

(* every state the now-playing entity is given where its states are *)
(* enumerated                                                       *)
EntityStates ==
    NowPlayingStates \cup
        {"unavailable", "unknown", NoState, "", "Minecraft for Android"}

Eids == {"", "sensor.xbox_now_playing"}

AccessErrorId == <<"ta_access_error">>
FixId(n) == <<"ta_fix", n>>
NotifIds ==
    {AccessErrorId} \cup { FixId(GAME_NAME_MAPPING(n)) : n \in EntityStates }

Unknown == [known |-> FALSE, at |-> 0]

(* last_modified.strftime("%Y-%m-%d %H:%M"): the time, to the minute *)
Strftime(t) == [known |-> TRUE, at |-> t]

----------------------------------------------------------------------------
(* String helpers, tabulated over the strings of the model *)

(* str.lower().strip() *)
Lower(s) ==
    CASE s = "Halo" -> "halo"
      [] s = "HALO" -> "halo"
      [] s = "Halo 2" -> "halo 2"
      [] s = "Forza" -> "forza"
      [] s = "Notes" -> "notes"
      [] s = "Chess" -> "chess"
      [] s = "Foo" -> "foo"
      [] OTHER -> s

(* x in s, for lower-case strings *)
Contains(s, x) == s = x \/ <<s, x>> \in {<<"halo 2", "halo">>}

(* "app" in plat: the comparison is case-sensitive, so "Windows App" *)
(* does not contain it                                               *)
HasApp(plat) == plat \in {"Web app"}

(* any(x in name_in_csv.lower() for x in self.excluded_apps) *)
IsExcluded(name, excluded) == \E x \in excluded : Contains(Lower(name), x)

EmptyDict == <<>>

(* dict update d[k] = v *)
Put(d, k, v) == (k :> v) @@ d

----------------------------------------------------------------------------
(* The now-playing entity *)

NoGame == [present |-> FALSE, name |-> "", image |-> None]

(* img_state.attributes.get("entity_picture") if img_state else None *)
PictureOf(g) == IF g = "Halo" THEN "/api/image/halo" ELSE None

(* mutant: "idle" is taken for the name of a game *)
get_game_info_idle_is_game(eid, state) ==
    IF eid = "" THEN NoGame
    ELSE IF state # NoState /\ state \notin {"unavailable", "unknown"}
         THEN [present |-> TRUE, name |-> state, image |-> PictureOf(state)]
         ELSE NoGame

get_game_info_local(eid, state) ==
    IF eid = "" THEN NoGame
    ELSE IF state # NoState /\ state \notin {"unavailable", "unknown", "idle"}
         THEN [present |-> TRUE, name |-> state, image |-> PictureOf(state)]
         ELSE NoGame

----------------------------------------------------------------------------
(* The statistics engine: _read_and_process_csv *)

Zero == [total_gs |-> 0, total_ta |-> 0, total_ach |-> 0, max_ach |-> 0,
         completed |-> 0, started |-> 0, current_game_stats |-> EmptyDict,
         raised |-> FALSE]

(* round(total_ach / max_ach * 100, 2), in hundredths of a percent *)
CompletionPct(total_ach, max_ach) ==
    IF max_ach > 0 THEN (total_ach * 20000 + max_ach) \div (2 * max_ach) ELSE 0

(* mutant: no row is skipped *)
SkippedNever(row, excluded) == FALSE

(* lines 268-272: the rows the loop skips with `continue` *)
Skipped(row, excluded) == HasApp(row.plat) \/ IsExcluded(row.name, excluded)

(* mutant: rows without a won achievement are added too *)
ContributesAlways(row) == TRUE

(* if ach_won > 0 *)
Contributes(row) == row.ach_won > 0

(* mutant: the test on ach_max is forgotten *)
IsCompletedNoMax(row) == row.ach_won >= row.ach_max

(* if ach_won >= ach_max > 0 *)
IsCompleted(row) == row.ach_won >= row.ach_max /\ row.ach_max > 0

(* lookup_name and lookup_name.lower().strip() == name_in_csv.lower().strip() *)
Matches(lookup_name, row) ==
    lookup_name # "" /\ Lower(lookup_name) = Lower(row.name)

(* the body of the `for row in reader` loop, for one row; once a row has *)
(* raised, the loop is over and the locals keep what they held           *)
ScanRow(acc, row, current_game_name, lookup_name, excluded) ==
    IF acc.raised THEN acc
    ELSE IF row.extra THEN [acc EXCEPT !.raised = TRUE]
    ELSE IF row.name = "" THEN acc
    ELSE IF Skipped(row, excluded) THEN acc
    ELSE
      LET acc1 == IF Matches(lookup_name, row)
                  THEN [acc EXCEPT !.current_game_stats =
                          [name |-> current_game_name,
                           platform |-> row.plat,
                           achievements |-> <<row.ach_won, row.ach_max>>,
                           gamerscore |-> row.gs_won,
                           ta_score |-> row.ta_won]]
                  ELSE acc
      IN IF Contributes(row)
         THEN [acc1 EXCEPT
                 !.total_gs = @ + row.gs_won,
                 !.total_ta = @ + row.ta_won,
                 !.total_ach = @ + row.ach_won,
                 !.max_ach = @ + row.ach_max,
                 !.started = @ + 1,
                 !.completed = IF IsCompleted(row) THEN @ + 1 ELSE @]
         ELSE acc1

RECURSIVE ScanRows(_, _, _, _, _)
ScanRows(acc, rows, current_game_name, lookup_name, excluded) ==
    IF rows = <<>> THEN acc
    ELSE ScanRows(ScanRow(acc, Head(rows), current_game_name, lookup_name, excluded),
                  Tail(rows), current_game_name, lookup_name, excluded)

(* mutant: the notification does not look at _notified_games *)
UnmatchedEveryTime(lookup_name, acc, notified) ==
    /\ ~acc.raised
    /\ lookup_name # ""
    /\ acc.current_game_stats = EmptyDict

(* lines 310-314, reached only when the loop ended without an exception *)
Unmatched(lookup_name, acc, notified) ==
    /\ ~acc.raised
    /\ lookup_name # ""
    /\ acc.current_game_stats = EmptyDict
    /\ lookup_name \notin notified

(* mutant: a lookup name is notified when there is no file to look into *)
read_and_process_csv_notify_absent(file, gi, excluded, notified) ==
    LET lookup_name == IF gi.present THEN GAME_NAME_MAPPING(gi.name) ELSE ""
        unmatched == lookup_name # "" /\ lookup_name \notin notified
    IN [ret |-> EmptyDict,
        notified |-> IF unmatched THEN notified \cup {lookup_name}
                     ELSE notified,
        notify |-> IF unmatched THEN {lookup_name} ELSE {}]

(* Returns the dict, the new _notified_games and the names notified. *)
(* gi is the game_info of the caller, "" standing for a None name.   *)
read_and_process_csv(file, gi, excluded, notified) ==
    LET current_game_name == IF gi.present THEN gi.name ELSE ""
        lookup_name == IF current_game_name # ""
                       THEN GAME_NAME_MAPPING(current_game_name) ELSE ""
    IN IF ~file.exists \/ file.content.len = 0
       THEN [ret |-> EmptyDict, notified |-> notified, notify |-> {}]
       ELSE
         LET acc == ScanRows(Zero, file.content.rows, current_game_name,
                             lookup_name, excluded)
             unmatched == Unmatched(lookup_name, acc, notified)
         IN [ret |-> [gamerscore |-> acc.total_gs,
                      ta_score |-> acc.total_ta,
                      total_games |-> acc.started,
                      completed_games |-> acc.completed,
                      total_achievements |-> acc.total_ach,
                      completion_percentage |->
                          CompletionPct(acc.total_ach, acc.max_ach),
                      current_game_name |->
                          IF current_game_name # "" THEN current_game_name
                          ELSE "offline_status",
                      current_game_details |-> acc.current_game_stats],
             notified |-> IF unmatched THEN notified \cup {lookup_name}
                          ELSE notified,
             notify |-> IF unmatched THEN {lookup_name} ELSE {}]

(* mutant: the dict of the parse is returned as it is *)
SnapshotRaw(ret, gi, lvu) == ret

(* lines 180-186: the dict returned by _async_update_data *)
Snapshot(ret, gi, lvu) ==
    LET details == IF "current_game_details" \in DOMAIN ret
                   THEN ret.current_game_details ELSE EmptyDict
    IN Put(Put(ret, "current_game_details",
               Put(details, "entity_picture", gi.image)),
           "last_update", lvu)

----------------------------------------------------------------------------
(* The decisions of _async_update_data *)

(* mutant: a freshness window of 12 hours *)
IsFreshShort(t, mtime) == (t - mtime) < FreshHours \div 2

(* (now - last_modified) < timedelta(hours=24) *)
IsFresh(t, mtime) == (t - mtime) < FreshHours

(* should_download after the 24h cache logic *)
ShouldDownload(file, t) == ~(file.exists /\ IsFresh(t, file.mtime))

(* mutant: the auth_failed guard is forgotten *)
WillFetchIgnoringAuth(sd, af) == sd

(* if should_download and not self.auth_failed *)
WillFetch(sd, af) == sd /\ ~af

(* mutant: the marker check is forgotten *)
ValidExportNoMarker(content) == content.len > MinValidSize

(* mutant: a body of exactly 1000 bytes passes *)
ValidExportAtLeast(content) == content.len >= MinValidSize /\ content.marker

(* len(content) > 1000 and b"Game name" in content *)
ValidExport(content) == content.len > MinValidSize /\ content.marker

(* mutant: the file is not touched on 401/403 *)
AfterResponseNoTouch(r, exists) ==
    CASE r.kind = "http" /\ r.status = 200 /\ ValidExport(r.body) -> "write"
      [] OTHER -> "parse"

(* mutant: an exception of the HTTP call ends the refresh without a parse *)
AfterResponseRaise(r, exists) ==
    CASE r.kind = "http" /\ r.status = 200 /\ ValidExport(r.body) -> "write"
      [] r.kind = "http" /\ r.status \in {401, 403} /\ exists -> "touch"
      [] r.kind = "exception" -> "failed"
      [] OTHER -> "parse"

(* where the refresh goes once the response is in *)
AfterResponse(r, exists) ==
    CASE r.kind = "http" /\ r.status = 200 /\ ValidExport(r.body) -> "write"
      [] r.kind = "http" /\ r.status \in {401, 403} /\ exists -> "touch"
      [] OTHER -> "parse"

(* mutant: an exception of the HTTP call counts as an auth error *)
IsAuthErrorOrException(r) ==
    \/ r.kind = "exception"
    \/ r.kind = "http" /\ r.status = 200 /\ ~ValidExport(r.body)
    \/ r.kind = "http" /\ r.status \in {401, 403}

(* whether the response sets auth_failed and notifies *)
IsAuthError(r) ==
    \/ r.kind = "http" /\ r.status = 200 /\ ~ValidExport(r.body)
    \/ r.kind = "http" /\ r.status \in {401, 403}

(* mutant: an existing file is not overwritten *)
write_file_once(file, content, t) ==
    IF file.exists THEN file
    ELSE [exists |-> TRUE, content |-> content, mtime |-> t]

(* _write_file: self.games_file.write_bytes(content) *)
write_file(file, content, t) ==
    [exists |-> TRUE, content |-> content, mtime |-> t]

(* os.utime(self.games_file, None) *)
utime(file, t) == [file EXCEPT !.mtime = t]

(* _send_error_notification: hass.services.async_call(create, id) *)
Emit(n, ids) == [i \in NotifIds |-> IF i \in ids THEN n[i] + 1 ELSE n[i]]

Triggers == {"timer", "event"}

(* the hours the clock visits: 0, 1, 23, 24, 25, 47, 48, ... *)
IsInstant(t) == (t % FreshHours) \in {0, 1, FreshHours - 1}

InitMTimes == {0 - FreshHours, 1 - FreshHours, 0}

PreOf == [games_file |-> games_file, auth_failed |-> auth_failed,
          notified_games |-> notified_games, notifs |-> notifs,
          last_valid_update |-> last_valid_update, now |-> now,
          transport_failed |-> resp.kind = "exception"]

----------------------------------------------------------------------------
(* The state after __init__ *)

Init ==
    /\ now = 0
    /\ games_file \in {Absent} \cup
           { [exists |-> TRUE, content |-> b, mtime |-> m] :
                 b \in ValidBodies \cup {NoBody}, m \in InitMTimes }
    /\ auth_failed = FALSE
    /\ last_valid_update = Unknown
    /\ notified_games = {}
    /\ now_playing_eid \in Eids
    /\ excluded_apps = {}
    /\ playing \in IF now_playing_eid = "" THEN {"idle"} ELSE NowPlayingStates
    /\ server_ok = FALSE
    /\ pc = "idle"
    /\ trigger = "none"
    /\ rnow = 0
    /\ should_download = FALSE
    /\ resp = NoResp
    /\ game_info = NoGame
    /\ reqs = 0
    /\ notifs = [i \in NotifIds |-> 0]
    /\ data = EmptyDict
    /\ result = "none"
    /\ pre = PreOf

----------------------------------------------------------------------------
(* The environment *)

(* time passes: the clock visits the hours next to each 24h boundary.  A *)
(* refresh lasts less than an hour (the HTTP call times out after 20 s), *)
(* so that the clock moves by at most one hour while one is in flight.   *)
Tick ==
    /\ \E t \in (now + 1)..MaxTime :
          /\ IsInstant(t)
          /\ \A u \in (now + 1)..(t - 1) : ~IsInstant(u)
          /\ pc # "idle" => (t = now + 1 /\ now = rnow)
          /\ now' = t
    /\ UNCHANGED <<games_file, auth_failed, last_valid_update, notified_games,
                   now_playing_eid, excluded_apps, playing, server_ok, pc, trigger, rnow,
                   should_download, resp, game_info, reqs, notifs, data,
                   result, pre>>

(* the now-playing entity changes state *)
SetNowPlaying(s) ==
    /\ now_playing_eid # ""
    /\ s # playing
    /\ playing' = s
    /\ UNCHANGED <<now, games_file, auth_failed, last_valid_update,
                   notified_games, now_playing_eid, excluded_apps, server_ok, pc, trigger,
                   rnow, should_download, resp, game_info, reqs, notifs, data,
                   result, pre>>

(* from now on the upstream service answers 200 with a valid export *)
Repair ==
    /\ ~server_ok
    /\ server_ok' = TRUE
    /\ UNCHANGED <<now, games_file, auth_failed, last_valid_update,
                   notified_games, now_playing_eid, excluded_apps, playing, pc, trigger, rnow,
                   should_download, resp, game_info, reqs, notifs, data,
                   result, pre>>

----------------------------------------------------------------------------
(* _async_update_data *)

(* lines 103-129: the cache logic, up to the HTTP request; or, when no   *)
(* download is due, lines 103-117 and 172-177, up to the parse           *)
Start(tr) ==
    /\ pc = "idle"
    /\ tr = "event" => now_playing_eid # ""
    /\ trigger' = tr
    /\ pre' = PreOf
    /\ rnow' = now
    /\ last_valid_update' = IF games_file.exists
                            THEN Strftime(games_file.mtime)
                            ELSE last_valid_update
    /\ should_download' = ShouldDownload(games_file, now)
    /\ resp' = NoResp
    /\ result' = "running"
    /\ IF WillFetch(ShouldDownload(games_file, now), auth_failed)
       THEN /\ pc' = "fetch"
            /\ reqs' = 1
            /\ game_info' = NoGame
       ELSE /\ pc' = "parse"
            /\ reqs' = 0
            /\ game_info' = get_game_info_local(now_playing_eid, playing)
    /\ UNCHANGED <<now, games_file, auth_failed, notified_games,
                   now_playing_eid, excluded_apps, playing, server_ok, notifs, data>>

(* lines 127-169: the response, or the exception, of session.get *)
Respond(r) ==
    /\ pc = "fetch"
    /\ server_ok => r.kind = "http" /\ r.status = 200 /\ r.body \in ValidBodies
    /\ resp' = r
    /\ pc' = AfterResponse(r, games_file.exists)
    /\ IF IsAuthError(r)
       THEN /\ auth_failed' = TRUE
            /\ notifs' = Emit(notifs, {AccessErrorId})
       ELSE UNCHANGED <<auth_failed, notifs>>
    /\ game_info' = IF AfterResponse(r, games_file.exists) = "parse"
                    THEN get_game_info_local(now_playing_eid, playing)
                    ELSE game_info
    /\ UNCHANGED <<now, games_file, last_valid_update, notified_games,
                   now_playing_eid, excluded_apps, playing, server_ok, trigger, rnow,
                   should_download, reqs, data, result, pre>>

(* lines 135-142 and 172-177: _write_file, then the success bookkeeping *)
WriteFile ==
    /\ pc = "write"
    /\ games_file' = write_file(games_file, resp.body, now)
    /\ last_valid_update' = Strftime(rnow)
    /\ auth_failed' = FALSE
    /\ pc' = "parse"
    /\ game_info' = get_game_info_local(now_playing_eid, playing)
    /\ UNCHANGED <<now, notified_games, now_playing_eid, excluded_apps, playing, server_ok,
                   trigger, rnow, should_download, resp, reqs, notifs, data,
                   result, pre>>

(* lines 163-166 and 172-177: os.utime(self.games_file, None) *)
TouchFile ==
    /\ pc = "touch"
    /\ games_file' = utime(games_file, now)
    /\ pc' = "parse"
    /\ game_info' = get_game_info_local(now_playing_eid, playing)
    /\ UNCHANGED <<now, auth_failed, last_valid_update, notified_games,
                   now_playing_eid, excluded_apps, playing, server_ok, trigger, rnow,
                   should_download, resp, reqs, notifs, data, result, pre>>

(* lines 176-186: _read_and_process_csv in the executor, then the return *)
Parse ==
    /\ pc = "parse"
    /\ LET r == read_and_process_csv(games_file, game_info, excluded_apps,
                                     notified_games)
       IN /\ notified_games' = r.notified
          /\ notifs' = Emit(notifs, { FixId(n) : n \in r.notify })
          /\ data' = Snapshot(r.ret, game_info, last_valid_update)
    /\ pc' = "idle"
    /\ result' = "returned"
    /\ UNCHANGED <<now, games_file, auth_failed, last_valid_update,
                   now_playing_eid, excluded_apps, playing, server_ok, trigger, rnow,
                   should_download, resp, game_info, reqs, pre>>

----------------------------------------------------------------------------

Next ==
    \/ Tick
    \/ \E s \in NowPlayingStates : SetNowPlaying(s)
    \/ Repair
    \/ \E tr \in Triggers : Start(tr)
    \/ \E r \in Responses : Respond(r)
    \/ WriteFile
    \/ TouchFile
    \/ Parse

Spec == Init /\ [][Next]_vars

(* The event loop runs every coroutine that is ready; the HTTP call ends  *)
(* within its 20 s timeout; executor jobs complete; the 30-minute timer  *)
(* keeps starting refreshes; time passes.                                *)
Fairness ==
    /\ WF_vars(Tick)
    /\ WF_vars(\E tr \in Triggers : Start(tr))
    /\ WF_vars(\E r \in Responses : Respond(r))
    /\ WF_vars(WriteFile)
    /\ WF_vars(TouchFile)
    /\ WF_vars(Parse)

(* The same coordinator configured without a now-playing entity: no   *)
(* state-change subscription (lines 70-76), refreshes by the timer only *)
InitNoEntity == Init /\ now_playing_eid = ""

NextNoEntity ==
    \/ Tick
    \/ Repair
    \/ Start("timer")
    \/ \E r \in Responses : Respond(r)
    \/ WriteFile
    \/ TouchFile
    \/ Parse

FairSpec == InitNoEntity /\ [][NextNoEntity]_vars /\ Fairness

----------------------------------------------------------------------------
(* The statistics engine over every cache file of up to MaxRows rows *)

RowPool ==
    { Row("Halo", "Xbox One", 500, 700, 50, 100),
      Row("HALO", "Windows", 0, 0, 0, 40),
      Row("Forza", "Xbox One", 1000, 1500, 60, 60),
      Row("Notes", "Windows App", 5, 5, 5, 10),
      Row("Halo 2", "Xbox One", 20, 30, 3, 0),
      Row("Chess", "Web app", 1, 1, 1, 1),
      Malformed(Row("Foo", "Xbox One", 7, 7, 7, 7)) }

RowLists == UNION { [1..k -> RowPool] : k \in 0..MaxRows }

(* an empty file: reader.fieldnames is None *)
NoHeader == NoBody

(* the values of the "excluded_apps" option, after lines 89-94 *)
ExcludedOptions == { {}, {"halo"} }

(* A coordinator with the now-playing entity configured whose cache file *)
(* was written within the hour, or is absent after a refused download.   *)
InitParse ==
    /\ now = 0
    /\ \/ /\ games_file \in
               { [exists |-> TRUE, content |-> c, mtime |-> 0] :
                     c \in {NoHeader} \cup
                           { Body(2 * MinValidSize, TRUE, rs) : rs \in RowLists } }
          /\ auth_failed = FALSE
       \/ /\ games_file = Absent
          /\ auth_failed = TRUE
    /\ last_valid_update = Unknown
    /\ notified_games = {}
    /\ now_playing_eid = "sensor.xbox_now_playing"
    /\ excluded_apps \in ExcludedOptions
    /\ playing \in NowPlayingStates
    /\ server_ok = FALSE
    /\ pc = "idle"
    /\ trigger = "none"
    /\ rnow = 0
    /\ should_download = FALSE
    /\ resp = NoResp
    /\ game_info = NoGame
    /\ reqs = 0
    /\ notifs = [i \in NotifIds |->
                    IF i = AccessErrorId /\ auth_failed THEN 1 ELSE 0]
    /\ data = EmptyDict
    /\ result = "none"
    /\ pre = PreOf

NextParse ==
    \/ \E s \in NowPlayingStates : SetNowPlaying(s)
    \/ \E tr \in Triggers : Start(tr)
    \/ Parse

ParseSpec == InitParse /\ [][NextParse]_vars

----------------------------------------------------------------------------
(* The now-playing entity in every state, with or without the entity *)
(* configured, over a cache file that is not due for a download      *)

InitEntity ==
    /\ now = 0
    /\ \/ /\ games_file \in
               { [exists |-> TRUE, content |-> c, mtime |-> 0] :
                     c \in {NoHeader, ExportA} }
          /\ auth_failed = FALSE
       \/ /\ games_file = Absent
          /\ auth_failed = TRUE
    /\ last_valid_update = Unknown
    /\ notified_games = {}
    /\ now_playing_eid \in Eids
    /\ excluded_apps = {}
    /\ playing \in EntityStates
    /\ server_ok = FALSE
    /\ pc = "idle"
    /\ trigger = "none"
    /\ rnow = 0
    /\ should_download = FALSE
    /\ resp = NoResp
    /\ game_info = NoGame
    /\ reqs = 0
    /\ notifs = [i \in NotifIds |->
                    IF i = AccessErrorId /\ auth_failed THEN 1 ELSE 0]
    /\ data = EmptyDict
    /\ result = "none"
    /\ pre = PreOf

NextEntity ==
    \/ \E s \in EntityStates : SetNowPlaying(s)
    \/ \E tr \in Triggers : Start(tr)
    \/ Parse

EntitySpec == InitEntity /\ [][NextEntity]_vars

TypeOK ==
    /\ now \in 0..MaxTime
    /\ auth_failed \in BOOLEAN
    /\ pc \in {"idle", "fetch", "write", "touch", "parse"}
    /\ reqs \in 0..1
    /\ notified_games \subseteq { GAME_NAME_MAPPING(n) : n \in EntityStates }

----------------------------------------------------------------------------
(* Vocabulary of the properties.  `pre` is the state in which the last     *)
(* refresh started, `resp` what its HTTP call produced, `reqs` the number  *)
(* of HTTP requests it issued.                                             *)

Returned == pc = "idle" /\ result = "returned"

Started == result # "none"

PreAge == pre.now - pre.games_file.mtime

GotValidExport ==
    /\ resp.kind = "http"
    /\ resp.status = 200
    /\ resp.body.len > 1000
    /\ resp.body.marker

GotInvalidBody ==
    /\ resp.kind = "http"
    /\ resp.status = 200
    /\ ~(resp.body.len > 1000 /\ resp.body.marker)

GotAuthStatus == resp.kind = "http" /\ resp.status \in {401, 403}

GotException == resp.kind = "exception"

----------------------------------------------------------------------------
(* C1: a refresh that starts while the cache file exists and is less than  *)
(* 24 hours old issues no HTTP request, whatever auth_failed is and        *)
(* whether the timer or a now-playing state change started it.             *)
C1_FreshFileNoRequest ==
    (Started /\ pre.games_file.exists /\ PreAge < 24)
        => (reqs = 0 /\ pc # "fetch" /\ resp = NoResp)

C1_Witness ==
    /\ Returned
    /\ trigger = "event"
    /\ ~pre.auth_failed
    /\ pre.games_file.exists
    /\ PreAge = 23

(* C2: a refresh that starts with auth_failed = true issues no HTTP        *)
(* request, whether the cache file is absent, fresh or older than 24h.     *)
C2_AuthFailedNoRequest ==
    (Started /\ pre.auth_failed) => (reqs = 0 /\ pc # "fetch" /\ resp = NoResp)

C2_Witness ==
    /\ Returned
    /\ pre.auth_failed
    /\ pre.games_file.exists
    /\ PreAge >= 24

(* C3: a refresh whose fetch outcome is anything but HTTP 200 with a valid *)
(* body leaves the bytes of the cache file as they were before it, and     *)
(* neither creates nor removes the file.                                   *)
C3_FailedDownloadKeepsContent ==
    (Started /\ ~GotValidExport)
        => /\ games_file.exists = pre.games_file.exists
           /\ games_file.content = pre.games_file.content

C3_Witness ==
    /\ Returned
    /\ resp.kind = "http" /\ resp.status = 200 /\ resp.body = LoginPage
    /\ pre.games_file.exists
    /\ games_file.content = ExportB

(* C4: after a 401 or 403 the refresh ends with auth_failed set, exactly   *)
(* one 'ta_access_error' notification emitted by it, and, if the cache     *)
(* file existed, with its mtime moved to the time of the touch and its     *)
(* content unchanged.                                                      *)
C4_AuthStatusSetsFlagAndTouches ==
    (Returned /\ GotAuthStatus)
        => /\ auth_failed
           /\ notifs[AccessErrorId] = pre.notifs[AccessErrorId] + 1
           /\ games_file.exists = pre.games_file.exists
           /\ pre.games_file.exists
                => /\ games_file.content = pre.games_file.content
                   /\ games_file.mtime >= pre.now
                   /\ games_file.mtime <= now
                   /\ games_file.mtime > pre.games_file.mtime

C4_Witness ==
    /\ Returned
    /\ resp.kind = "http" /\ resp.status = 403
    /\ pre.games_file.exists
    /\ ~pre.auth_failed

(* C5: after a 200 whose body fails the validity check the refresh ends    *)
(* with auth_failed set and one 'ta_access_error' notification emitted by  *)
(* it, and the cache file is as before: same content, same mtime, and      *)
(* still absent if it was absent.                                          *)
C5_InvalidBodyLeavesFile ==
    (Returned /\ GotInvalidBody)
        => /\ auth_failed
           /\ notifs[AccessErrorId] = pre.notifs[AccessErrorId] + 1
           /\ games_file = pre.games_file

C5_Witness ==
    /\ Returned
    /\ resp.kind = "http" /\ resp.status = 200 /\ resp.body = ShortExport
    /\ ~pre.games_file.exists
    /\ ~games_file.exists

(* C7: after a 200 with a valid body the refresh ends with the cache file  *)
(* holding exactly the received bytes, auth_failed false and               *)
(* last_valid_update set to the time of this refresh.                      *)
C7_ValidExportPersisted ==
    (Returned /\ GotValidExport)
        => /\ games_file.exists
           /\ games_file.content = resp.body
           /\ ~auth_failed
           /\ last_valid_update = Strftime(pre.now)

C7_Witness ==
    /\ Returned
    /\ resp.kind = "http" /\ resp.status = 200 /\ resp.body = ExportB
    /\ pre.games_file.exists
    /\ pre.games_file.content = ExportA
    /\ games_file.content = ExportB

(* C6 as stated: after an exception of the HTTP call the refresh leaves    *)
(* auth_failed, the cache file and the notified-names set as they were     *)
(* before it, and emits no notification at all.                            *)
C6_ExceptionLeavesEverything ==
    (Returned /\ GotException)
        => /\ auth_failed = pre.auth_failed
           /\ games_file = pre.games_file
           /\ notified_games = pre.notified_games
           /\ notifs = pre.notifs

(* C6 as amended: after an exception of the HTTP call the refresh leaves   *)
(* auth_failed and the cache file (content and mtime) as they were and     *)
(* emits no 'ta_access_error' notification; the parse that follows may add *)
(* the current lookup name to the notified-names set and then emits the    *)
(* one 'game not recognized' notification for it, and nothing else.        *)
C6_ExceptionLeavesAuthAndFile ==
    (Returned /\ GotException)
        => LET added == notified_games \ pre.notified_games
           IN /\ auth_failed = pre.auth_failed
              /\ games_file = pre.games_file
              /\ notifs[AccessErrorId] = pre.notifs[AccessErrorId]
              /\ pre.notified_games \subseteq notified_games
              /\ added \subseteq (IF game_info.present
                                  THEN {GAME_NAME_MAPPING(game_info.name)}
                                  ELSE {})
              /\ \A i \in NotifIds :
                    notifs[i] = pre.notifs[i] +
                        (IF \E n \in added : i = FixId(n) THEN 1 ELSE 0)

C6_Witness ==
    /\ Returned
    /\ GotException
    /\ pre.games_file.exists
    /\ ~pre.auth_failed
    /\ notified_games = pre.notified_games \cup {"Foo"}
    /\ "Foo" \notin pre.notified_games

(* C8 as stated: once auth_failed is set and the upstream service answers  *)
(* 200 with a valid export whenever asked, the refresh cycles of this      *)
(* controller eventually fetch successfully and auth_failed returns to     *)
(* false.                                                                  *)
C8_AuthFailedAutoClears == (auth_failed /\ server_ok) ~> ~auth_failed

(* What the code does instead: no step of any refresh resets auth_failed   *)
(* once it is set, since the only reset (line 139) follows a fetch that    *)
(* line 117 allows only while auth_failed is false.                        *)
AuthFailedIsSticky == [][auth_failed => auth_failed']_vars

(* the snapshot held by the coordinator is the parse of the file on disk *)
ParsedFromDisk ==
    data = Snapshot(read_and_process_csv(games_file, game_info, excluded_apps,
                                         notified_games).ret,
                    game_info, last_valid_update)

(* C9: every refresh in flight, whatever its fetch step did, goes on to    *)
(* parse the cache file as it is on disk and returns that snapshot.        *)
C9_AlwaysParsesAndReturns == (pc # "idle") ~> (Returned /\ ParsedFromDisk)

C9_Witness ==
    /\ Returned
    /\ GotException
    /\ pre.games_file.exists
    /\ "gamerscore" \in DOMAIN data
    /\ ParsedFromDisk

----------------------------------------------------------------------------
(* C11: the last_update of a snapshot is the time of the most recent      *)
(* successful download: a refresh that persists no new export (fresh     *)
(* file, suppressed by auth_failed, invalid body, 401/403 with its touch, *)
(* transport failure) reports the last_update the previous snapshot had.  *)
C11_LastUpdateOnlyMovesOnDownload ==
    [][(/\ pc = "parse"
        /\ pc' = "idle"
        /\ ~GotValidExport
        /\ "last_update" \in DOMAIN data)
       => data'.last_update = data.last_update]_vars

----------------------------------------------------------------------------
(* The rows the reader yields before the first malformed one *)
RECURSIVE RowsRead(_)
RowsRead(rows) ==
    IF rows = <<>> \/ Head(rows).extra THEN <<>>
    ELSE <<Head(rows)>> \o RowsRead(Tail(rows))

(* the loop over the file ran to its end *)
ParsedWhole(file) ==
    /\ file.exists
    /\ file.content.len > 0
    /\ \A i \in 1..Len(file.content.rows) : ~file.content.rows[i].extra

(* the name the last refresh looked up, "" when no game was playing *)
LookupName == IF game_info.present THEN GAME_NAME_MAPPING(game_info.name) ELSE ""

NoRowNamed(file, n) ==
    \A i \in 1..Len(file.content.rows) :
        Lower(file.content.rows[i].name) # Lower(n)

(* C12: over the refreshes of one coordinator the "game not recognized"  *)
(* notification of a lookup name is emitted at most once, and it has been *)
(* emitted as soon as one refresh parsed the cache file and found no row  *)
(* bearing that name, that is on the first such refresh and never again.  *)
C12_UnmatchedNotifiedOnce ==
    /\ \A n \in NowPlayingStates :
          notifs[FixId(GAME_NAME_MAPPING(n))] =
              IF GAME_NAME_MAPPING(n) \in notified_games THEN 1 ELSE 0
    /\ (/\ Returned
        /\ LookupName # ""
        /\ ParsedWhole(games_file)
        /\ NoRowNamed(games_file, LookupName))
       => notifs[FixId(LookupName)] = 1

(* a second refresh that found no row for "Foo": nothing emitted again *)
C12_Witness ==
    /\ Returned
    /\ LookupName = "Foo"
    /\ ParsedWhole(games_file)
    /\ NoRowNamed(games_file, "Foo")
    /\ pre.notifs[FixId("Foo")] = 1
    /\ "Foo" \in pre.notified_games
    /\ notifs[FixId("Foo")] = 1

----------------------------------------------------------------------------
(* the keys of the dict built at lines 330-341 *)
StatKeys == {"gamerscore", "ta_score", "total_games", "completed_games",
             "total_achievements", "completion_percentage",
             "current_game_name"}

HasHeader(file) == file.exists /\ file.content.len > 0

(* C13, as stated: every snapshot returned by a refresh, the cache file   *)
(* absent or without a header row included, holds the six totals, the     *)
(* current game name, the current game details and last_update.           *)
C13_EverySnapshotHasAllKeys ==
    Returned =>
        StatKeys \cup {"current_game_details", "last_update"} \subseteq DOMAIN data

(* C13, amended: every snapshot returned by a refresh holds the current   *)
(* game details and last_update; it holds the six totals and the current  *)
(* game name ("offline_status" when no game is playing) exactly when the  *)
(* cache file exists and has a header row.                                *)
C13_SnapshotKeys ==
    Returned =>
        /\ {"current_game_details", "last_update"} \subseteq DOMAIN data
        /\ HasHeader(games_file) =>
              /\ StatKeys \subseteq DOMAIN data
              /\ LookupName = "" => data.current_game_name = "offline_status"
        /\ ~HasHeader(games_file) => StatKeys \cap DOMAIN data = {}

(* a refresh over a cache file without a header row *)
C13_Witness ==
    /\ Returned
    /\ games_file.exists
    /\ games_file.content = NoHeader
    /\ DOMAIN data = {"current_game_details", "last_update"}

----------------------------------------------------------------------------
HasMalformedRow(file) ==
    \E i \in 1..Len(file.content.rows) : file.content.rows[i].extra

(* the keys a matched row puts into the current-game detail *)
RowKeys == {"name", "platform", "achievements", "gamerscore", "ta_score"}

(* C14: when a row of the cache file makes the parse raise, whatever its  *)
(* position in the file, the snapshot is zeroed: every total is 0 and the *)
(* current-game detail holds nothing of a row, the rows read before the   *)
(* failure contributing nothing.                                          *)
C14_ExceptionZeroesSnapshot ==
    (Returned /\ HasHeader(games_file) /\ HasMalformedRow(games_file)) =>
        /\ data.gamerscore = 0
        /\ data.ta_score = 0
        /\ data.total_games = 0
        /\ data.completed_games = 0
        /\ data.total_achievements = 0
        /\ data.completion_percentage = 0
        /\ RowKeys \cap DOMAIN data.current_game_details = {}

----------------------------------------------------------------------------
(* a row the parse read, did not skip, and whose name is the lookup name *)
SomeRowMatches(file, n, excluded) ==
    /\ HasHeader(file)
    /\ n # ""
    /\ \E i \in 1..Len(RowsRead(file.content.rows)) :
          LET row == file.content.rows[i]
          IN /\ row.name # ""
             /\ ~HasApp(row.plat)
             /\ ~IsExcluded(row.name, excluded)
             /\ Lower(row.name) = Lower(n)

(* C15, as stated: the current-game detail of a snapshot is a non-empty   *)
(* mapping only when a non-excluded row matched the mapped lookup name;   *)
(* with no game playing, or no matching row, it is empty.                 *)
C15_DetailEmptyUnlessMatched ==
    (Returned /\ ~SomeRowMatches(games_file, LookupName, excluded_apps)) =>
        data.current_game_details = EmptyDict

(* C15, amended: the current-game detail of a snapshot always holds the   *)
(* entity_picture key; it holds the fields of a row exactly when a row    *)
(* that was read and not excluded matched the mapped lookup name, and     *)
(* entity_picture is its only key otherwise.                              *)
C15_RowFieldsOnlyWhenMatched ==
    Returned =>
        /\ "entity_picture" \in DOMAIN data.current_game_details
        /\ IF SomeRowMatches(games_file, LookupName, excluded_apps)
           THEN RowKeys \subseteq DOMAIN data.current_game_details
           ELSE DOMAIN data.current_game_details = {"entity_picture"}

(* "Halo" is playing and the file has its row, but the row is excluded *)
C15_Witness ==
    /\ Returned
    /\ LookupName = "Halo"
    /\ HasHeader(games_file)
    /\ ~NoRowNamed(games_file, "Halo")
    /\ excluded_apps = {"halo"}
    /\ DOMAIN data.current_game_details = {"entity_picture"}

----------------------------------------------------------------------------
(* the platform field contains "App", as the claim writes it *)
PlatContainsApp(plat) == plat \in {"Windows App"}

(* C16: a row whose platform contains "App" is excluded from every        *)
(* aggregate, even with achievements won, and is never the current-game   *)
(* match: a file made of such rows only gives totals of 0 and no detail.  *)
C16_AppPlatformRowsExcluded ==
    (/\ Returned
     /\ HasHeader(games_file)
     /\ \A i \in 1..Len(games_file.content.rows) :
           /\ ~games_file.content.rows[i].extra
           /\ PlatContainsApp(games_file.content.rows[i].plat))
    => /\ data.gamerscore = 0
       /\ data.ta_score = 0
       /\ data.total_games = 0
       /\ data.completed_games = 0
       /\ data.total_achievements = 0
       /\ data.completion_percentage = 0
       /\ RowKeys \cap DOMAIN data.current_game_details = {}

----------------------------------------------------------------------------
(* the positions of the rows read, not excluded, and named as the lookup *)
MatchingRows(file, n, excluded) ==
    { i \in 1..Len(RowsRead(file.content.rows)) :
        LET row == file.content.rows[i]
        IN /\ row.name # ""
           /\ ~HasApp(row.plat)
           /\ ~IsExcluded(row.name, excluded)
           /\ Lower(row.name) = Lower(n) }

FirstOf(S) == CHOOSE i \in S : \A j \in S : i <= j

LastOf(S) == CHOOSE i \in S : \A j \in S : j <= i

(* C17: when several non-excluded rows bear the lookup name, the one      *)
(* current-game detail is built from the first of them in file order.     *)
C17_FirstMatchWins ==
    (Returned /\ SomeRowMatches(games_file, LookupName, excluded_apps)) =>
        LET row == games_file.content.rows[
                      FirstOf(MatchingRows(games_file, LookupName, excluded_apps))]
        IN /\ data.current_game_details.platform = row.plat
           /\ data.current_game_details.achievements = <<row.ach_won, row.ach_max>>
           /\ data.current_game_details.gamerscore = row.gs_won
           /\ data.current_game_details.ta_score = row.ta_won

(* what the code does: the last matching row supplies the detail *)
LastMatchWins ==
    (Returned /\ SomeRowMatches(games_file, LookupName, excluded_apps)) =>
        LET row == games_file.content.rows[
                      LastOf(MatchingRows(games_file, LookupName, excluded_apps))]
        IN /\ data.current_game_details.platform = row.plat
           /\ data.current_game_details.achievements = <<row.ach_won, row.ach_max>>
           /\ data.current_game_details.gamerscore = row.gs_won
           /\ data.current_game_details.ta_score = row.ta_won

----------------------------------------------------------------------------
(* the positions of the rows read, not excluded, with an achievement won *)
CountedRows(file, excluded) ==
    { i \in 1..Len(RowsRead(file.content.rows)) :
        LET row == file.content.rows[i]
        IN /\ row.name # ""
           /\ ~HasApp(row.plat)
           /\ ~IsExcluded(row.name, excluded)
           /\ row.ach_won > 0 }

RECURSIVE SumField(_, _, _)
SumField(S, rows, f) ==
    IF S = {} THEN 0
    ELSE LET i == CHOOSE x \in S : TRUE
         IN rows[i][f] + SumField(S \ {i}, rows, f)

(* C18: whatever the rows hold, achievements won above the maximum        *)
(* included, the completion percentage (here in hundredths of a percent)  *)
(* lies in [0, 100], and it is 0 exactly when the max-achievements of the *)
(* counted rows sum to 0.                                                 *)
C18_PercentageInRange ==
    (Returned /\ HasHeader(games_file)) =>
        /\ data.completion_percentage \in 0..10000
        /\ data.completion_percentage = 0 <=>
              SumField(CountedRows(games_file, excluded_apps),
                       games_file.content.rows, "ach_max") = 0

(* the second half of C18 alone *)
PercentageZeroIffNoMax ==
    (Returned /\ HasHeader(games_file)) =>
        (data.completion_percentage = 0 <=>
            SumField(CountedRows(games_file, excluded_apps),
                     games_file.content.rows, "ach_max") = 0)

----------------------------------------------------------------------------
(* the positions of the rows read and not excluded *)
KeptRows(file, excluded) ==
    { i \in 1..Len(RowsRead(file.content.rows)) :
        LET row == file.content.rows[i]
        IN /\ row.name # ""
           /\ ~HasApp(row.plat)
           /\ ~IsExcluded(row.name, excluded) }

(* C19: the completed-games count is the number of non-excluded rows with *)
(* achievements won >= max achievements and max achievements > 0; a row   *)
(* with max achievements = 0 is never counted, whatever it has won.       *)
C19_CompletedCount ==
    (Returned /\ HasHeader(games_file)) =>
        data.completed_games =
            Cardinality({ i \in KeptRows(games_file, excluded_apps) :
                            /\ games_file.content.rows[i].ach_won >=
                                   games_file.content.rows[i].ach_max
                            /\ games_file.content.rows[i].ach_max > 0 })

(* a completed row next to a counted row with 3 won of a maximum of 0 *)
C19_Witness ==
    /\ Returned
    /\ HasHeader(games_file)
    /\ \E i \in KeptRows(games_file, excluded_apps) :
          /\ games_file.content.rows[i].ach_max = 0
          /\ games_file.content.rows[i].ach_won > 0
    /\ data.total_games = 2
    /\ data.completed_games = 1

----------------------------------------------------------------------------
(* C20: a row with achievements won = 0 adds nothing to the games-started *)
(* count nor to any other total, even when it bears the lookup name and   *)
(* supplies the current-game detail: the totals are those of the kept     *)
(* rows with an achievement won.                                          *)
C20_ZeroWonRowsContributeNothing ==
    (Returned /\ HasHeader(games_file)) =>
        LET S == CountedRows(games_file, excluded_apps)
            rows == games_file.content.rows
        IN /\ data.total_games = Cardinality(S)
           /\ data.gamerscore = SumField(S, rows, "gs_won")
           /\ data.ta_score = SumField(S, rows, "ta_won")
           /\ data.total_achievements = SumField(S, rows, "ach_won")
           /\ data.completion_percentage =
                  CompletionPct(SumField(S, rows, "ach_won"),
                                SumField(S, rows, "ach_max"))

(* the row with 0 won of 40 is the current game, next to one counted row *)
C20_Witness ==
    /\ Returned
    /\ HasHeader(games_file)
    /\ LookupName = "Halo"
    /\ RowKeys \subseteq DOMAIN data.current_game_details
    /\ data.current_game_details.achievements = <<0, 40>>
    /\ data.total_games = 1
    /\ data.completion_percentage = 10000

----------------------------------------------------------------------------
(* the states of the entity that stand for "not playing" *)
NotPlaying == {"unavailable", "unknown", "idle", NoState}

(* a step in which the refresh reads the now-playing entity *)
ReadsEntity == pc # "parse" /\ pc' = "parse"

(* a step in which the refresh returns its snapshot *)
ReturnsSnapshot == pc = "parse" /\ pc' = "idle"

(* what get_game_info_local is to return for the entity as it is *)
ResolvesEntity ==
    ReadsEntity =>
        IF now_playing_eid = "" \/ playing \in NotPlaying
        THEN ~game_info'.present
        ELSE game_info'.present /\ game_info'.name = playing

(* C21, as stated: get_game_info_local returns nothing when no entity is  *)
(* configured or its state is unavailable, unknown, idle or missing, and  *)
(* any other state unchanged as the game name; the current game name of   *)
(* the snapshot is then that state, and "offline_status" otherwise.       *)
C21_GameNameFromEntity ==
    [][/\ ResolvesEntity
       /\ ReturnsSnapshot =>
             /\ "current_game_name" \in DOMAIN data'
             /\ data'.current_game_name =
                    IF game_info.present THEN game_info.name
                    ELSE "offline_status"]_vars

(* C21, amended: the same resolution of the entity; the snapshot has a    *)
(* current game name only when the cache file exists and has a header     *)
(* row, and it is then the state returned if that is a non-empty string,  *)
(* "offline_status" otherwise.                                            *)
C21_GameNameWhenFileHasHeader ==
    [][/\ ResolvesEntity
       /\ ReturnsSnapshot =>
             IF HasHeader(games_file)
             THEN /\ "current_game_name" \in DOMAIN data'
                  /\ data'.current_game_name =
                         IF game_info.present /\ game_info.name # ""
                         THEN game_info.name
                         ELSE "offline_status"
             ELSE "current_game_name" \notin DOMAIN data']_vars

(* the entity reports a mapped name, and the snapshot bears it unmapped *)
C21_Witness ==
    /\ Returned
    /\ game_info.present
    /\ game_info.name = "Minecraft for Android"
    /\ HasHeader(games_file)
    /\ data.current_game_name = "Minecraft for Android"

----------------------------------------------------------------------------
(* C22: a transport failure is retried on the next cycle: the refresh     *)
(* that follows one whose download ended in an exception of the HTTP call *)
(* issues the request again, the failure leaving no backoff or            *)
(* suppression behind (pre.transport_failed tells that the refresh before *)
(* the last one started ended so).                                        *)
C22_TransportFailureRetried ==
    pre.transport_failed => (Started /\ reqs = 1)

(* the retry after a transport failure brought a valid export *)
C22_Witness ==
    /\ Returned
    /\ pre.transport_failed
    /\ pre.auth_failed = FALSE
    /\ reqs = 1
    /\ GotValidExport

----------------------------------------------------------------------------
(* every row bearing the name is skipped by an exclusion rule, and there *)
(* is such a row                                                         *)
OnlyExcludedRowsNamed(file, n, excluded) ==
    /\ ~NoRowNamed(file, n)
    /\ \A i \in 1..Len(file.content.rows) :
          Lower(file.content.rows[i].name) = Lower(n) =>
              \/ HasApp(file.content.rows[i].plat)
              \/ IsExcluded(file.content.rows[i].name, excluded)

(* C23: when the only rows bearing the lookup name are skipped by an      *)
(* exclusion rule (app platform or excluded substring), no current-game   *)
(* detail is produced, no "game not recognized" notification is emitted   *)
(* and the name is not recorded as notified.                              *)
C23_NoSignalWhenLookupExcluded ==
    (/\ Returned
     /\ LookupName # ""
     /\ ParsedWhole(games_file)
     /\ OnlyExcludedRowsNamed(games_file, LookupName, excluded_apps))
    => /\ RowKeys \cap DOMAIN data.current_game_details = {}
       /\ notifs[FixId(LookupName)] = 0
       /\ LookupName \notin notified_games

----------------------------------------------------------------------------
(* C24: over the life of one coordinator, whatever the refreshes and the  *)
(* responses of the server, the credential-expired notification           *)
(* "ta_access_error" is emitted at most once: it has been emitted exactly *)
(* when auth_failed is set, and a refresh that starts with auth_failed    *)
(* set issues no request.                                                 *)
C24_AtMostOneAccessError ==
    /\ notifs[AccessErrorId] = IF auth_failed THEN 1 ELSE 0
    /\ (Started /\ pre.auth_failed) => reqs = 0

(* a refresh due for a download after the notification: no request, and *)
(* still the one notification                                            *)
C24_Witness ==
    /\ Returned
    /\ pre.auth_failed
    /\ pre.notifs[AccessErrorId] = 1
    /\ should_download
    /\ reqs = 0
    /\ notifs[AccessErrorId] = 1

----------------------------------------------------------------------------
(* C25: a refresh that runs with a lookup name while the cache file is    *)
(* absent, or has no header row, emits no "game not recognized"           *)
(* notification and leaves the notified set as it was; the notification   *)
(* of that name is thus still emitted by the refresh that first parses a  *)
(* cache file holding no row of that name.                                *)
C25_NoFileNoGameNotification ==
    /\ (Returned /\ LookupName # "" /\ ~HasHeader(games_file)) =>
          /\ notified_games = pre.notified_games
          /\ \A n \in EntityStates :
                notifs[FixId(GAME_NAME_MAPPING(n))] =
                    pre.notifs[FixId(GAME_NAME_MAPPING(n))]
    /\ (/\ Returned
        /\ LookupName # ""
        /\ LookupName \notin pre.notified_games
        /\ ParsedWhole(games_file)
        /\ NoRowNamed(games_file, LookupName)) =>
          /\ LookupName \in notified_games
          /\ notifs[FixId(LookupName)] = pre.notifs[FixId(LookupName)] + 1

(* "Foo" is playing and the refresh found the cache file without a header *)
(* row: nothing notified, nothing recorded                                *)
C25_Witness ==
    /\ Returned
    /\ LookupName = "Foo"
    /\ games_file.exists
    /\ ~HasHeader(games_file)
    /\ notified_games = {}
    /\ notifs[FixId("Foo")] = 0

(* after a refresh that failed to download into an absent cache file, the *)
(* next one downloads an export and notifies "Foo"                        *)
NotifiedOnceFileExists ==
    /\ Returned
    /\ pre.transport_failed
    /\ ~pre.games_file.exists
    /\ pre.notified_games = {}
    /\ LookupName = "Foo"
    /\ HasHeader(games_file)
    /\ notifs[FixId("Foo")] = 1

----------------------------------------------------------------------------
(* C26: in every snapshot computed from a cache file, completed games <=  *)
(* games started <= total achievements, and with no game started the      *)
(* gamerscore, the TA score, the achievements and the completion          *)
(* percentage are all 0.                                                  *)
C26_TotalsOrdered ==
    (Returned /\ HasHeader(games_file)) =>
        /\ data.completed_games <= data.total_games
        /\ data.total_games <= data.total_achievements
        /\ data.total_games = 0 =>
              /\ data.gamerscore = 0
              /\ data.ta_score = 0
              /\ data.total_achievements = 0
              /\ data.completion_percentage = 0

(* three games started, one of them completed, over three rows *)
C26_Witness ==
    /\ Returned
    /\ HasHeader(games_file)
    /\ Len(games_file.content.rows) = 3
    /\ data.total_games = 3
    /\ data.completed_games = 1
    /\ data.total_achievements > 3

====
